---- MODULE Spec2Model ----
(***************************************************************************)
(* State-machine model of the car simulation core: the geometry kernel     *)
(* (linearInterpolation, getIntersection, polysIntersect), the Sensor      *)
(* (castRays, getReading, update) and the Car (move, createPolygon,        *)
(* assessDamage, update).                                                  *)
(*                                                                         *)
(* Numbers.  The source computes in IEEE doubles; the model computes in    *)
(* fixed point, rounding every quotient and product to the nearest unit    *)
(* as a double operation rounds to the nearest double:                     *)
(*   lengths and speeds   integer multiples of 1/PX pixel (PX = 20, so     *)
(*                        that friction 0.05 is exactly one unit)          *)
(*   angles               integer multiples of 1/One radian                *)
(*   ratios (t, u, sin)   integer multiples of 1/One   (One = 10^4)        *)
(***************************************************************************)
EXTENDS Integers, Sequences, FiniteSets, TLC

VARIABLES
    x, y,        \* Car.x, Car.y             (1/PX pixel)
    angle,       \* Car.angle                (1/One radian)
    speed,       \* Car.speed                (1/PX pixel per tick)
    damaged,     \* Car.damaged
    polygon,     \* Car.polygon              (<<>> until the first update)
    controls,    \* Car.controls             (forward, reverse, left, right)
    rays,        \* Sensor.rays
    readings,    \* Sensor.readings          (<<>> until the first update)
    borders,     \* the roadBorders argument of the latest Car.update
    linked,      \* which of the two getIntersection definitions is linked
    inputs,      \* number of key inputs so far (counted only in SpecDrive)
    idle,        \* ticks since the controls were last touched, all four
                 \* being false, up to IdleBound (counted only in SpecCoast)
    args,        \* arguments <<A, B, C, D>> of a direct getIntersection call
    touch,       \* its return value
    returned     \* whether that call has returned

vars == <<x, y, angle, speed, damaged, polygon, controls, rays, readings,
          borders, linked, inputs, idle, args, touch, returned>>

-----------------------------------------------------------------------------
(* Fixed-point arithmetic *)

One == 10 ^ 4

PX == 20

Abs(n) == IF n < 0 THEN -n ELSE n

Sgn(n) == IF n < 0 THEN -1 ELSE IF n > 0 THEN 1 ELSE 0

Max(a, b) == IF a >= b THEN a ELSE b

\* n / d rounded to the nearest integer, halves away from zero (d > 0).
Rnd(n, d) == Sgn(n) * ((2 * Abs(n) + d) \div (2 * d))

\* The product of a quantity q and a ratio r (r in units of 1/One).
Mul(q, r) == Rnd(q * r, One)

\* Ratios beyond +-QuotCap are reported as +-QuotCap: only comparisons with
\* 0 and 1 read them.
QuotCap == 100 * One

RECURSIVE FracDigits(_, _, _, _)
\* Long division: k further decimal digits of r / d (0 <= r < d), appended
\* to acc; the last digit is rounded to nearest.
FracDigits(r, d, k, acc) ==
    IF k = 0
    THEN acc + (IF 2 * r >= d THEN 1 ELSE 0)
    ELSE FracDigits((10 * r) % d, d, k - 1, 10 * acc + ((10 * r) \div d))

\* The quotient n / d as a ratio (units of 1/One), rounded to nearest:
\* the model of the double division tTop / bottom  (d # 0).
Div(n, d) ==
    LET an == Abs(n)
        ad == Abs(d)
        q  == an \div ad
    IN  Sgn(n) * Sgn(d) *
        (IF q >= 100 THEN QuotCap ELSE FracDigits(an % ad, ad, 4, q))

-----------------------------------------------------------------------------
(* Math.PI, Math.sin, Math.cos, Math.hypot, Math.atan2 *)

Pi == 31416

HalfPi == Pi \div 2

TwoPi == 2 * Pi

\* sin on [0, pi/2] by its Taylor polynomial of degree 9 in Horner form.
SinQ(a) ==
    LET a2 == Rnd(a * a, One)
        t4 == One - Rnd(a2, 72)
        t3 == One - Rnd(Rnd(a2 * t4, One), 42)
        t2 == One - Rnd(Rnd(a2 * t3, One), 20)
        t1 == One - Rnd(Rnd(a2 * t2, One), 6)
    IN  Rnd(a * t1, One)

Sin(a) ==
    LET r == a % TwoPi
    IN  IF r <= HalfPi THEN SinQ(r)
        ELSE IF r <= Pi THEN SinQ(Pi - r)
        ELSE IF r <= Pi + HalfPi THEN -SinQ(r - Pi)
        ELSE -SinQ(TwoPi - r)

Cos(a) == Sin(a + HalfPi)

RECURSIVE SqrtBisect(_, _, _)
\* The largest r in lo..hi with r * r <= n.
SqrtBisect(n, lo, hi) ==
    IF lo >= hi THEN lo
    ELSE LET mid == (lo + hi + 1) \div 2
         IN  IF mid * mid <= n THEN SqrtBisect(n, mid, hi)
             ELSE SqrtBisect(n, lo, mid - 1)

Hypot(a, b) == SqrtBisect(a * a + b * b, 0, Abs(a) + Abs(b))

RECURSIVE AtanBisect(_, _, _, _)
\* The angle in lo..hi whose tangent is p / q   (p, q >= 0, not both 0).
AtanBisect(p, q, lo, hi) ==
    IF hi - lo <= 1
    THEN IF Abs(Sin(lo) * q - Cos(lo) * p) <= Abs(Sin(hi) * q - Cos(hi) * p)
         THEN lo ELSE hi
    ELSE LET mid == (lo + hi) \div 2
         IN  IF Sin(mid) * q <= Cos(mid) * p
             THEN AtanBisect(p, q, mid, hi)
             ELSE AtanBisect(p, q, lo, mid)

\* Math.atan2(p, q) for p, q >= 0 (a width and a height); atan2(0, 0) = 0.
Atan2(p, q) == IF p = 0 THEN 0 ELSE AtanBisect(p, q, 0, HalfPi)

-----------------------------------------------------------------------------
(* Geometry kernel *)

Point(px, py) == [x |-> px, y |-> py]

\* "No value" (null) is the empty sequence, a value v is <<v>>.
None == <<>>

Some(v) == <<v>>

linearInterpolation(A, B, t) == A + Mul(B - A, t)

tTopOf(A, B, C, D) == (D.x - C.x) * (A.y - C.y) - (D.y - C.y) * (A.x - C.x)

uTopOf(A, B, C, D) == (C.y - A.y) * (A.x - B.x) - (C.x - A.x) * (A.y - B.y)

bottomOf(A, B, C, D) == (D.y - C.y) * (B.x - A.x) - (D.x - C.x) * (B.y - A.y)

\* getIntersection as src/utils.js defines it.
getIntersectionUtils(A, B, C, D) ==
    LET tTop   == tTopOf(A, B, C, D)
        uTop   == uTopOf(A, B, C, D)
        bottom == bottomOf(A, B, C, D)
    IN  IF bottom # 0
        THEN LET t == Div(tTop, bottom)
                 u == Div(uTop, bottom)
             IN  IF t >= 0 /\ t <= One /\ u >= 0 /\ u <= One
                 THEN Some([x |-> linearInterpolation(A.x, B.x, t),
                            y |-> linearInterpolation(A.x, B.x, t),
                            offset |-> t])
                 ELSE None
        ELSE None

\* getIntersection as the second kernel file (with polysIntersect) defines it.
getIntersectionKernel(A, B, C, D) ==
    LET tTop   == tTopOf(A, B, C, D)
        uTop   == uTopOf(A, B, C, D)
        bottom == bottomOf(A, B, C, D)
    IN  IF bottom # 0
        THEN LET t == Div(tTop, bottom)
                 u == Div(uTop, bottom)
             IN  IF t >= 0 /\ t <= One /\ u >= 0 /\ u <= One
                 THEN Some([x |-> linearInterpolation(A.x, B.x, t),
                            y |-> linearInterpolation(A.y, B.y, t),
                            offset |-> t])
                 ELSE None
        ELSE None

C8_getIntersectionStrict(A, B, C, D) ==
    LET tTop   == tTopOf(A, B, C, D)
        uTop   == uTopOf(A, B, C, D)
        bottom == bottomOf(A, B, C, D)
    IN  IF bottom # 0
        THEN LET t == Div(tTop, bottom)
                 u == Div(uTop, bottom)
             IN  IF t > 0 /\ t < One /\ u > 0 /\ u < One
                 THEN Some([x |-> linearInterpolation(A.x, B.x, t),
                            y |-> linearInterpolation(A.y, B.y, t),
                            offset |-> t])
                 ELSE None
        ELSE None

\* The global name getIntersection, bound to one of the two definitions.
getIntersection(A, B, C, D) ==
    IF linked = "utils" THEN getIntersectionUtils(A, B, C, D)
    ELSE getIntersectionKernel(A, B, C, D)

RECURSIVE polysIntersectFrom(_, _, _, _)
\* The nested loops of polysIntersect, resumed at indices i, j (0-based).
polysIntersectFrom(poly1, poly2, i, j) ==
    IF i >= Len(poly1) THEN FALSE
    ELSE IF j >= Len(poly2) THEN polysIntersectFrom(poly1, poly2, i + 1, 0)
    ELSE IF getIntersection(poly1[i + 1],
                            poly1[((i + 1) % Len(poly1)) + 1],
                            poly2[j + 1],
                            poly2[((j + 1) % Len(poly2)) + 1]) # None
         THEN TRUE
         ELSE polysIntersectFrom(poly1, poly2, i, j + 1)

RECURSIVE C2_openFrom(_, _, _, _)
C2_openFrom(poly1, poly2, i, j) ==
    IF i >= Len(poly1) - 1 THEN FALSE
    ELSE IF j >= Len(poly2) THEN C2_openFrom(poly1, poly2, i + 1, 0)
    ELSE IF getIntersection(poly1[i + 1], poly1[i + 2],
                            poly2[j + 1],
                            poly2[((j + 1) % Len(poly2)) + 1]) # None
         THEN TRUE
         ELSE C2_openFrom(poly1, poly2, i, j + 1)

C2_polysIntersectOpen(poly1, poly2) == C2_openFrom(poly1, poly2, 0, 0)

polysIntersect(poly1, poly2) == polysIntersectFrom(poly1, poly2, 0, 0)

-----------------------------------------------------------------------------
(* Sensor *)

rayCount == 5

rayLength == 150 * PX

raySpread == Pi \div 2

RECURSIVE castRaysFrom(_, _, _, _)
\* The loop of Sensor.#castRays from index i on; the car is at (cx, cy),
\* heading ca.
castRaysFrom(i, cx, cy, ca) ==
    IF i >= rayCount THEN <<>>
    ELSE LET rayAngle ==
                 linearInterpolation(
                     Rnd(raySpread, 2),
                     -Rnd(raySpread, 2),
                     IF rayCount = 1 THEN One \div 2 ELSE Div(i, rayCount - 1)
                 ) + ca
             start == Point(cx, cy)
             end   == Point(cx - Mul(rayLength, Sin(rayAngle)),
                            cy - Mul(rayLength, Cos(rayAngle)))
         IN  <<(<<start, end>>)>> \o castRaysFrom(i + 1, cx, cy, ca)

castRays(cx, cy, ca) == castRaysFrom(0, cx, cy, ca)

RECURSIVE touchesFrom(_, _, _)
\* The loop of Sensor.#getReading that collects the touches, from index i.
touchesFrom(ray, roadBorders, i) ==
    IF i >= Len(roadBorders) THEN <<>>
    ELSE LET t == getIntersection(ray[1], ray[2],
                                  roadBorders[i + 1][1], roadBorders[i + 1][2])
         IN  (IF t # None THEN t ELSE <<>>)
                 \o touchesFrom(ray, roadBorders, i + 1)

RECURSIVE MinOf(_)
\* Math.min(...offsets) of a non-empty sequence.
MinOf(s) ==
    IF Len(s) = 1 THEN s[1]
    ELSE LET m == MinOf(Tail(s)) IN IF s[1] <= m THEN s[1] ELSE m

RECURSIVE FindOffset(_, _)
\* touches.find(e => e.offset === minOffset): the first match.
FindOffset(touches, minOffset) ==
    IF Head(touches).offset = minOffset THEN Some(Head(touches))
    ELSE FindOffset(Tail(touches), minOffset)

C5_getReadingFirst(ray, roadBorders) ==
    LET touches == touchesFrom(ray, roadBorders, 0)
    IN  IF Len(touches) = 0 THEN None ELSE Some(Head(touches))

getReading(ray, roadBorders) ==
    LET touches == touchesFrom(ray, roadBorders, 0)
    IN  IF Len(touches) = 0 THEN None
        ELSE LET offsets   == [i \in 1..Len(touches) |-> touches[i].offset]
                 minOffset == MinOf(offsets)
             IN  FindOffset(touches, minOffset)

-----------------------------------------------------------------------------
(* Car *)

carWidth == 30 * PX

carHeight == 50 * PX

acceleration == PX \div 10

maxSpeed == 3 * PX

friction == PX \div 20

turnStep == (3 * One) \div 100

Idle == [forward |-> FALSE, reverse |-> FALSE, left |-> FALSE, right |-> FALSE]

ControlValues ==
    [forward : BOOLEAN, reverse : BOOLEAN, left : BOOLEAN, right : BOOLEAN]

\* The two acceleration statements of Car.#move.
accelerate(c, s) ==
    LET s1 == IF c.forward THEN s + acceleration ELSE s
    IN  IF c.reverse THEN s1 - acceleration ELSE s1

C7_clampSpeedNoReverseCap(s) == IF s > maxSpeed THEN maxSpeed ELSE s

\* The two clamping statements of Car.#move.
clampSpeed(s) ==
    LET s3 == IF s > maxSpeed THEN maxSpeed ELSE s
    IN  IF s3 < -(maxSpeed \div 2) THEN -(maxSpeed \div 2) ELSE s3

C6_applyFrictionForwardOnly(s) ==
    LET s6 == IF s > 0 THEN s - friction ELSE s
    IN  IF Abs(s6) < friction THEN 0 ELSE s6

\* The two friction statements and the snap to zero of Car.#move.
applyFriction(s) ==
    LET s5 == IF s < 0 THEN s + friction ELSE s
        s6 == IF s5 > 0 THEN s5 - friction ELSE s5
    IN  IF Abs(s6) < friction THEN 0 ELSE s6

C10_steerNoFlip(c, s, a) ==
    IF s # 0
    THEN LET a1 == IF c.left THEN a + turnStep ELSE a
         IN  IF c.right THEN a1 - turnStep ELSE a1
    ELSE a

\* The steering block of Car.#move: s is the speed after friction.
steer(c, s, a) ==
    IF s # 0
    THEN LET flip == IF s > 0 THEN 1 ELSE -1
             a1   == IF c.left THEN a + turnStep * flip ELSE a
         IN  IF c.right THEN a1 - turnStep * flip ELSE a1
    ELSE a

\* Car.#move on controls c, speed s, heading a, position (px, py).
move(c, s, a, px, py) ==
    LET s7 == applyFriction(clampSpeed(accelerate(c, s)))
        a2 == steer(c, s7, a)
    IN  [speed |-> s7,
         angle |-> a2,
         x |-> px - Mul(s7, Sin(a2)),
         y |-> py - Mul(s7, Cos(a2))]

\* Math.hypot(this.width, this.height) / 2
rad == Rnd(Hypot(carWidth, carHeight), 2)

\* Math.atan2(this.width, this.height)
alpha == Atan2(carWidth, carHeight)

\* Car.#createPolygon for a car at (px, py) heading a.
createPolygon(px, py, a) ==
    << Point(px - Mul(rad, Sin(a - alpha)), py - Mul(rad, Cos(a - alpha))),
       Point(px - Mul(rad, Sin(a + alpha)), py - Mul(rad, Cos(a + alpha))),
       Point(px - Mul(rad, Sin(Pi + a - alpha)),
             py - Mul(rad, Cos(Pi + a - alpha))),
       Point(px - Mul(rad, Sin(Pi + a + alpha)),
             py - Mul(rad, Cos(Pi + a + alpha))) >>

RECURSIVE assessDamageFrom(_, _, _)
assessDamageFrom(poly, roadBorders, i) ==
    IF i >= Len(roadBorders) THEN FALSE
    ELSE IF polysIntersect(poly, roadBorders[i + 1]) THEN TRUE
    ELSE assessDamageFrom(poly, roadBorders, i + 1)

\* Car.#assessDamage with this.polygon = poly.
assessDamage(poly, roadBorders) == assessDamageFrom(poly, roadBorders, 0)

-----------------------------------------------------------------------------
(* Road borders handed to Car.update: sequences of segments <<P, Q>>.      *)
(* The car is constructed at the origin; every road below is closed, so    *)
(* that a car that keeps moving ends up Damaged.                           *)

\* Clearances between the car's footprint at the start and the walls.
FrontGap == 6

BackGap == 4

SideGap == 20

\* Distance from the first wall ahead to a second one behind it.
SecondWall == 400

\* Length of the wall stub ahead of the right-hand side in RoadB.
StubLen == 70

\* Clearances ahead of and behind the car on the long road.
FrontRun == 1900

BackRun == 520

Seg(x1, y1, x2, y2) == <<Point(x1, y1), Point(x2, y2)>>

\* A rectangular road around the start: walls at xl, xr, yf (ahead, y
\* decreases forwards) and yb.
Walls(xl, xr, yf, yb) ==
    << Seg(xl, yf, xl, yb), Seg(xr, yf, xr, yb),
       Seg(xl, yf, xr, yf), Seg(xl, yb, xr, yb) >>

HalfW == carWidth \div 2

HalfH == carHeight \div 2

\* A tight box, with a second wall behind the one ahead.
RoadA ==
    << Seg(-(HalfW + SideGap), -(HalfH + FrontGap + SecondWall),
           HalfW + SideGap, -(HalfH + FrontGap + SecondWall)) >>
    \o Walls(-(HalfW + SideGap), HalfW + SideGap,
             -(HalfH + FrontGap), HalfH + BackGap)

\* The same box with only a stub of wall ahead, in front of the car's
\* right-hand side, and a zero-length segment lying on the road.
RoadB ==
    << Seg(0, -(HalfH \div 2), 0, -(HalfH \div 2)),
       Seg(-(HalfW + SideGap), -(HalfH + FrontGap), -(HalfW + SideGap),
           HalfH + BackGap),
       Seg(HalfW + SideGap, -(HalfH + FrontGap), HalfW + SideGap,
           HalfH + BackGap),
       Seg(HalfW + SideGap - StubLen, -(HalfH + FrontGap),
           HalfW + SideGap, -(HalfH + FrontGap)),
       Seg(-(HalfW + SideGap), HalfH + BackGap,
           HalfW + SideGap, HalfH + BackGap) >>

BorderChoices == {RoadA, RoadB}

\* A long straight road, closed at both ends.
LongRoad ==
    Walls(-(HalfW + SideGap), HalfW + SideGap,
          -(HalfH + FrontRun), HalfH + BackRun)

-----------------------------------------------------------------------------
(* Actions *)

\* Car.#move, createPolygon and assessDamage in sequence, each reading the
\* fields the one before has written.
MoveAndAssess(roadBorders) ==
    LET m == move(controls, speed, angle, x, y)
    IN  /\ x' = m.x
        /\ y' = m.y
        /\ angle' = m.angle
        /\ speed' = m.speed
        /\ polygon' = createPolygon(x', y', angle')
        /\ damaged' = assessDamage(polygon', roadBorders)

C1_UpdateCarNoFreeze(roadBorders) == MoveAndAssess(roadBorders)

\* The car's part of Car.update(roadBorders).
UpdateCar(roadBorders) ==
    IF ~damaged
    THEN MoveAndAssess(roadBorders)
    ELSE UNCHANGED <<x, y, angle, speed, polygon, damaged>>

RECURSIVE readingsFrom(_, _, _)
\* The loop of Sensor.update that pushes one reading per ray, from index i.
readingsFrom(rs, roadBorders, i) ==
    IF i >= Len(rs) THEN <<>>
    ELSE <<getReading(rs[i + 1], roadBorders)>>
             \o readingsFrom(rs, roadBorders, i + 1)

C3_SensorUpdateIfActive(roadBorders) ==
    IF damaged
    THEN UNCHANGED <<rays, readings>>
    ELSE /\ rays' = castRays(x', y', angle')
         /\ readings' = readingsFrom(rays', roadBorders, 0)

\* Sensor.update(roadBorders), reading the car's pose after UpdateCar.
SensorUpdate(roadBorders) ==
    /\ rays' = castRays(x', y', angle')
    /\ readings' = readingsFrom(rays', roadBorders, 0)

\* Car.update(roadBorders): one tick.
Update(roadBorders) ==
    /\ UpdateCar(roadBorders)
    /\ SensorUpdate(roadBorders)
    /\ borders' = roadBorders
    /\ UNCHANGED <<controls, linked, inputs, args, touch, returned>>

\* A tick of the animation loop.
Tick(roadBorders) == Update(roadBorders) /\ UNCHANGED idle

\* The number of friction steps in maxSpeed.
IdleBound == maxSpeed \div friction

\* A tick, counted when all four controls are false.
CountedTick(roadBorders) ==
    /\ Update(roadBorders)
    /\ idle' = IF controls # Idle THEN 0
               ELSE IF idle < IdleBound THEN idle + 1 ELSE idle

\* The keyboard collaborator sets the four control flags to c.
Press(c) ==
    /\ c # controls
    /\ controls' = c
    /\ idle' = 0
    /\ UNCHANGED <<x, y, angle, speed, damaged, polygon, rays, readings,
                   borders, linked, args, touch, returned>>

KeyInput(c) == Press(c) /\ UNCHANGED inputs

\* At most MaxKeyInputs changes of the controls.
MaxKeyInputs == 1

CountedKeyInput(c) ==
    /\ inputs < MaxKeyInputs
    /\ Press(c)
    /\ inputs' = inputs + 1

\* A direct call getIntersection(A, B, C, D).
Intersect ==
    /\ ~returned
    /\ touch' = getIntersection(args[1], args[2], args[3], args[4])
    /\ returned' = TRUE
    /\ UNCHANGED <<x, y, angle, speed, damaged, polygon, controls, rays,
                   readings, borders, linked, inputs, idle, args>>

-----------------------------------------------------------------------------
(* Specifications *)

\* new Car(0, 0, carWidth, carHeight), with its Sensor and Controls.
Constructed ==
    /\ x = 0
    /\ y = 0
    /\ angle = 0
    /\ speed = 0
    /\ damaged = FALSE
    /\ polygon = <<>>
    /\ controls = Idle
    /\ rays = <<>>
    /\ readings = <<>>
    /\ borders = <<>>
    /\ inputs = 0
    /\ idle = 0
    /\ linked \in {"utils", "kernel"}

Init ==
    /\ Constructed
    /\ args = <<>>
    /\ touch = None
    /\ returned = FALSE

\* The car in a tight box, any controls at any time, either road per tick.
Next ==
    \/ \E c \in ControlValues : KeyInput(c)
    \/ \E b \in BorderChoices : Tick(b)

Spec == Init /\ [][Next]_vars

\* The car in the tight box RoadA, any controls at any time, the ticks with
\* all controls false counted.
NextCoast ==
    \/ \E c \in ControlValues : KeyInput(c)
    \/ CountedTick(RoadA)

SpecCoast == Init /\ [][NextCoast]_vars

\* The car on the long road, the controls changed at most MaxKeyInputs times.
NextDrive ==
    \/ \E c \in ControlValues : CountedKeyInput(c)
    \/ Tick(LongRoad)

SpecDrive == Init /\ [][NextDrive]_vars

\* Coordinates of the points getIntersection is called on directly.
GridMax == 2

Grid == {k * PX : k \in 0..GridMax}

GridPoints == {Point(px, py) : px \in Grid, py \in Grid}

InitGeom ==
    /\ Constructed
    /\ args \in GridPoints \X GridPoints \X GridPoints \X GridPoints
    /\ touch = None
    /\ returned = FALSE

NextGeom == Intersect

SpecGeom == InitGeom /\ [][NextGeom]_vars

-----------------------------------------------------------------------------
(* Claims *)

\* A step of Spec that is a call of Car.update: KeyInput always changes the
\* controls, Update never does.
IsUpdate == controls' = controls

\* C1: once damaged is true, every later tick leaves x, y, angle, speed and
\* the footprint polygon unchanged and leaves damaged true.
C1_DamagedAbsorbing ==
    [][damaged => /\ x' = x
                  /\ y' = y
                  /\ angle' = angle
                  /\ speed' = speed
                  /\ polygon' = polygon
                  /\ damaged']_vars

\* A damaged car whose latest tick was given borders its footprint does not
\* touch: that tick ran in the Damaged state.
C1_Witness == damaged /\ borders # <<>> /\ ~assessDamage(polygon, borders)

\* Some edge of poly (vertex i to vertex (i + 1) mod n) intersects some
\* segment of bs.
SomeEdgeCrosses(poly, bs) ==
    \E i \in 1..Len(poly) : \E b \in 1..Len(bs) :
        getIntersection(poly[i], poly[(i % Len(poly)) + 1],
                        bs[b][1], bs[b][2]) # None

\* C2: after a tick executed in the Active state, damaged is true exactly
\* when some edge of the footprint polygon rebuilt in that tick from the
\* post-move pose intersects some supplied border segment.
C2_DamageIffEdgeCrosses ==
    [][(~damaged /\ IsUpdate) =>
           /\ polygon' = createPolygon(x', y', angle')
           /\ damaged' <=> SomeEdgeCrosses(polygon', borders')]_vars

\* The car has driven straight into the wall stub of RoadB, which only the
\* closing edge of its footprint (last vertex to first) reaches.
C2_Witness ==
    /\ damaged
    /\ angle = 0
    /\ y < 0
    /\ borders = RoadB
    /\ SomeEdgeCrosses(polygon, borders)

\* C3: after every tick, Active or Damaged, the rays are those cast from the
\* car's current pose, and readings has rayCount entries, entry i being the
\* reading of ray i against the borders passed to that tick.
C3_SensorRefreshed ==
    borders # <<>> =>
        /\ rays = castRays(x, y, angle)
        /\ Len(readings) = rayCount
        /\ \A i \in 1..rayCount : readings[i] = getReading(rays[i], borders)

\* A damaged car whose footprint is clear of the borders of its latest tick
\* (so that tick ran in the Damaged state), with a reading that is not the
\* one the other road gives.
C3_Witness ==
    /\ damaged
    /\ borders = RoadB
    /\ ~assessDamage(polygon, RoadB)
    /\ \E i \in 1..rayCount :
           readings[i] # getReading(rays[i], RoadA)

\* The intersection of ray i with border segment b.
RayHit(i, b) ==
    getIntersection(rays[i][1], rays[i][2], borders[b][1], borders[b][2])

\* C5: the reading of a ray is none exactly when no border segment
\* intersects the ray, and otherwise is an intersection of the ray with a
\* border whose offset is at most that of every other intersection.
C5_NearestReading ==
    borders # <<>> =>
        \A i \in 1..Len(rays) :
            LET hits == {b \in 1..Len(borders) : RayHit(i, b) # None}
            IN  /\ (readings[i] = None) <=> (hits = {})
                /\ readings[i] # None =>
                       /\ \E b \in hits : readings[i] = RayHit(i, b)
                       /\ \A b \in hits :
                              readings[i][1].offset <= RayHit(i, b)[1].offset

\* A ray crossed by two borders, the nearer one later in the collection,
\* whose reading is the nearer crossing.
C5_Witness ==
    /\ borders # <<>>
    /\ \E i \in 1..Len(rays) : \E b1, b2 \in 1..Len(borders) :
           /\ b1 < b2
           /\ RayHit(i, b1) # None
           /\ RayHit(i, b2) # None
           /\ RayHit(i, b2)[1].offset < RayHit(i, b1)[1].offset
           /\ readings[i] = RayHit(i, b2)

\* C6 as stated: from any reachable state, once IdleBound consecutive ticks
\* have had all four controls false, the speed is 0 (and stays 0 while the
\* controls stay false).
C6_Original == idle >= IdleBound => speed = 0

\* C6 amended: every tick of an Active car with all four controls false
\* moves the speed one friction step towards 0 (to exactly 0 from within one
\* step), so after IdleBound such ticks in a row the speed is 0 and stays 0,
\* unless the car is Damaged, whose speed is frozen.
C6_Amended ==
    /\ [][(~damaged /\ IsUpdate /\ controls = Idle) =>
              /\ Abs(speed') = Max(Abs(speed) - friction, 0)
              /\ speed' * speed >= 0]_vars
    /\ [](idle >= IdleBound => (speed = 0 \/ damaged))

\* An Active car that has moved and come to rest with the controls false.
C6_Witness == ~damaged /\ speed = 0 /\ idle >= IdleBound /\ y # 0

\* C7: after every tick, for every sequence of controls from speed 0, the
\* speed lies in [-maxSpeed / 2, maxSpeed].
C7_SpeedRange == -(maxSpeed \div 2) <= speed /\ speed <= maxSpeed

\* The car has held forward beyond the tick in which the sum of speed and
\* acceleration first exceeded maxSpeed.
C7_Witness ==
    /\ ~damaged
    /\ controls.forward
    /\ speed = maxSpeed - friction
    /\ y < -((maxSpeed * (maxSpeed - friction)) \div 2) - maxSpeed

\* C10: in an Active tick the heading changes by the turn step times
\* (left - right), with the sign of the speed after acceleration, clamping
\* and friction, and not at all when that speed is zero.
C10_Steering ==
    [][(~damaged /\ IsUpdate) =>
           angle' = angle + Sgn(speed') * turnStep *
                        ((IF controls.left THEN 1 ELSE 0) -
                         (IF controls.right THEN 1 ELSE 0))]_vars

\* The car has reversed with left held: the heading went down.
C10_Witness ==
    speed < 0 /\ controls.left /\ ~controls.right /\ angle = -turnStep

\* Twice the signed area of the triangle P, Q, R.
Orient(P, Q, R) == (Q.x - P.x) * (R.y - P.y) - (Q.y - P.y) * (R.x - P.x)

\* The lines AB and CD have the same direction, or one of them has none.
Parallel(A, B, C, D) ==
    (B.x - A.x) * (D.y - C.y) - (B.y - A.y) * (D.x - C.x) = 0

\* AB and CD are not parallel and each has its ends on both sides of (or
\* on) the other's line: t and u lie in [0, 1].
Crosses(A, B, C, D) ==
    /\ ~Parallel(A, B, C, D)
    /\ Orient(C, D, A) * Orient(C, D, B) <= 0
    /\ Orient(A, B, C) * Orient(A, B, D) <= 0

\* C8: getIntersection returns an intersection exactly when bottom is
\* nonzero and t and u both lie in [0, 1]; it returns none for parallel,
\* collinear and zero-length segments, and endpoint touches count.
C8_IntersectsIffInRange ==
    returned =>
        LET A == args[1]
            B == args[2]
            C == args[3]
            D == args[4]
        IN  /\ (touch # None) <=> Crosses(A, B, C, D)
            /\ (Parallel(A, B, C, D) \/ A = B \/ C = D) => touch = None
            /\ touch # None => touch[1].offset \in 0..One

\* The end B of AB lies on CD: an endpoint touch, reported with offset 1.
C8_Witness ==
    /\ returned
    /\ touch # None
    /\ touch[1].offset = One
    /\ Orient(args[3], args[4], args[2]) = 0

\* C4: a returned intersection has x = lerp(A.x, B.x, t),
\* y = lerp(A.y, B.y, t) and offset = t.
C4_PointInterpolated ==
    (returned /\ touch # None) =>
        LET A == args[1]
            B == args[2]
            C == args[3]
            D == args[4]
            t == Div(tTopOf(A, B, C, D), bottomOf(A, B, C, D))
        IN  /\ touch[1].x = linearInterpolation(A.x, B.x, t)
            /\ touch[1].y = linearInterpolation(A.y, B.y, t)
            /\ touch[1].offset = t

\* C9: malformed geometric input, such as a zero-length segment, never
\* reaches a tick's geometry functions: no tick completes, with damage
\* assessed and readings taken, on borders that hold a zero-length segment.
C9_MalformedRejected ==
    ~(/\ borders # <<>>
      /\ \E b \in 1..Len(borders) : borders[b][1] = borders[b][2]
      /\ polygon # <<>>
      /\ Len(readings) = rayCount)

====
